---- MODULE Spec2Model ----
(***************************************************************************)
(* Model of the PDF analyzer backend:                                      *)
(*   - gemini_extractor.transform_gemini_output_to_frontend_format         *)
(*   - analysis_engine.build_service_registry / detect_contradictions /    *)
(*     extract_entities                                                    *)
(*   - main.upload_pdf / main.extract_pdf_tables                           *)
(*   - main.analyze_contradictions / main.analyze_gaps_endpoint /          *)
(*     main.get_clarification_endpoint                                     *)
(*                                                                         *)
(* Python values are represented as follows.                               *)
(*   str (opaque cell / key)   a TLA+ string                               *)
(*   str (inspected text)      a sequence of one-character strings         *)
(*   list                      a sequence                                  *)
(*   dict (insertion ordered)  a sequence of <<key, value>> pairs with     *)
(*                             pairwise distinct keys                      *)
(*   a JSON value whose type the code tests with isinstance                *)
(*                             [type |-> "list" | "dict" | "str", val]     *)
(*   outcome of a call         [status |-> "pending"],                     *)
(*                             [status |-> "returned", value |-> v],       *)
(*                             [status |-> "raised", exc |-> name]         *)
(***************************************************************************)
EXTENDS Integers, Sequences, FiniteSets, TLC

VARIABLES
    gemini_data,      \* argument of transform_gemini_output_to_frontend_format
    frontend_data,    \* the outcome of that call
    tables_data,      \* argument of the analysis_engine functions
    pc,               \* which analysis_engine function runs, and where it is
    registry_out,     \* outcome of build_service_registry(tables_data), called
                      \* directly or by detect_contradictions
    entities_out,     \* outcome of extract_entities(tables_data)
    potential,        \* detect_contradictions: potential_contradictions
    contradictions,   \* detect_contradictions: the findings collected so far
    calls,            \* the analyze_contradiction calls made, in order
    detect_out,       \* outcome of detect_contradictions(tables_data)
    uploads,          \* the files of UPLOAD_DIR: a set of [name, content]
    returned_ids,     \* the file_id values successful /upload responses gave
    request,          \* the HTTP request handled last
    response,         \* the response to it
    try_out,          \* how the try block of its handler ended: the outcome
                      \* of the calls into the extraction or analysis code
    handlers          \* the upload_pdf activations that run side by side, in
                      \* order of arrival: [filename, content, file_id,
                      \* file_path, at], `at` being where the activation is

varsTransform == <<gemini_data, frontend_data>>

varsAnalysis == <<tables_data, pc, registry_out, entities_out, potential,
                  contradictions, calls, detect_out>>

varsHttp == <<uploads, returned_ids, request, response, try_out, handlers>>

vars == <<varsTransform, varsAnalysis, varsHttp>>

(***************************************************************************)
(* Python helpers                                                          *)
(***************************************************************************)

\* A component that is not exercised: its variables at their start values.
IdleTransform ==
    /\ gemini_data = <<>>
    /\ frontend_data = [status |-> "pending"]

IdleAnalysis ==
    /\ tables_data = <<>>
    /\ pc = "idle"
    /\ registry_out = [status |-> "pending"]
    /\ entities_out = [status |-> "pending"]
    /\ potential = <<>>
    /\ contradictions = <<>>
    /\ calls = <<>>
    /\ detect_out = [status |-> "pending"]

\* Outcome of indexing past the end of a list.
IndexError == "IndexError"

Pending == [status |-> "pending"]

Raise(e) == [status |-> "raised", exc |-> e]

Return(v) == [status |-> "returned", value |-> v]

\* TRUE when seq[i] (0-based, i >= 0) raises IndexError.
IndexRaises(s, i) == ~(0 <= i /\ i < Len(s))

\* seq[i] with Python's 0-based index; out of range raises IndexError.
PyIndex(s, i) == IF 0 <= i /\ i < Len(s) THEN s[i + 1] ELSE IndexError

\* list(d.keys())
DictKeys(d) == [i \in 1..Len(d) |-> d[i][1]]

\* k in d
DictHas(d, k) == \E i \in 1..Len(d) : d[i][1] = k

\* d[k] for a key the dict holds
DictGet(d, k) == d[CHOOSE i \in 1..Len(d) : d[i][1] = k][2]

IdleHttp ==
    /\ uploads = {}
    /\ returned_ids = {}
    /\ request = [op |-> "none"]
    /\ response = [op |-> "none"]
    /\ try_out = [status |-> "pending"]
    /\ handlers = <<>>

(***************************************************************************)
(* gemini_extractor.transform_gemini_output_to_frontend_format             *)
(***************************************************************************)

\* Faulty variant: the ragged-column guard of line 254 dropped.
SubtopicCellUnguarded(table_data, header, i) ==
    PyIndex(DictGet(table_data, header), i)

\* table_data[header][i] if i < len(table_data[header]) else ""   (line 254)
SubtopicCell(table_data, header, i) ==
    IF i < Len(DictGet(table_data, header))
    THEN PyIndex(DictGet(table_data, header), i)
    ELSE ""

\* Faulty variant: the row count taken from the last header's column.
SubtopicNumRowsLast(table_data, headers) ==
    IF headers # <<>> THEN Len(DictGet(table_data, headers[Len(headers)])) ELSE 0

\* len(table_data[headers[0]]) if headers else 0                  (line 249)
SubtopicNumRows(table_data, headers) ==
    IF headers # <<>> THEN Len(DictGet(table_data, headers[1])) ELSE 0

\* Lines 245-262: the record appended for one (category, table_data) item.
SubtopicRecord(fund, category, table_data) ==
    LET headers  == DictKeys(table_data)
        num_rows == SubtopicNumRows(table_data, headers)
        rows     == [i \in 1..num_rows |->
                        [j \in 1..Len(headers) |->
                            SubtopicCell(table_data, headers[j], i - 1)]]
    IN  [fund |-> fund, category |-> category, headers |-> headers, rows |-> rows]

\* value[header][i] if i < len(value[header]) else ""             (line 281)
AnnexCell(value, header, i) ==
    IF i < Len(DictGet(value, header))
    THEN PyIndex(DictGet(value, header), i)
    ELSE ""

\* len(value[headers[0]]) if headers else 0                       (line 276)
AnnexNumRows(value, headers) ==
    IF headers # <<>> THEN Len(DictGet(value, headers[1])) ELSE 0

\* Faulty variant: the annex record filed under a fixed category name.
AnnexRecordFixedCategory(key, value) ==
    LET headers  == DictKeys(value)
        num_rows == AnnexNumRows(value, headers)
        rows     == [i \in 1..num_rows |->
                        [j \in 1..Len(headers) |->
                            AnnexCell(value, headers[j], i - 1)]]
    IN  [fund |-> key, category |-> "ANNEX", headers |-> headers, rows |-> rows]

\* Lines 268-289: the record appended for a top-level dict value.
AnnexRecord(key, value) ==
    LET fund     == key
        category == key
        headers  == DictKeys(value)
        num_rows == AnnexNumRows(value, headers)
        rows     == [i \in 1..num_rows |->
                        [j \in 1..Len(headers) |->
                            AnnexCell(value, headers[j], i - 1)]]
    IN  [fund |-> fund, category |-> category, headers |-> headers, rows |-> rows]

\* Line 242: for category, table_data in subtopic_dict.items()
RECURSIVE SubtopicItems(_, _, _)
SubtopicItems(fund, items, transformed_tables) ==
    IF items = <<>> THEN transformed_tables
    ELSE SubtopicItems(fund, Tail(items),
            Append(transformed_tables,
                   SubtopicRecord(fund, Head(items)[1], Head(items)[2])))

\* Faulty variant: each sub-heading record inserted at the front of the output.
RECURSIVE FundSubtopicsPrepend(_, _, _)
FundSubtopicsPrepend(fund, value, transformed_tables) ==
    IF value = <<>> THEN transformed_tables
    ELSE FundSubtopicsPrepend(fund, Tail(value),
            SubtopicItems(fund, Head(value), <<>>) \o transformed_tables)

\* Line 241: for subtopic_dict in value
RECURSIVE FundSubtopics(_, _, _)
FundSubtopics(fund, value, transformed_tables) ==
    IF value = <<>> THEN transformed_tables
    ELSE FundSubtopics(fund, Tail(value),
            SubtopicItems(fund, Head(value), transformed_tables))

\* Lines 235-291: for key, value in gemini_data.items()
RECURSIVE TopLevelItems(_, _)
TopLevelItems(items, transformed_tables) ==
    IF items = <<>> THEN transformed_tables
    ELSE LET key   == Head(items)[1]
             value == Head(items)[2]
         IN  TopLevelItems(Tail(items),
                CASE value.type = "list" ->
                        FundSubtopics(key, value.val, transformed_tables)
                  [] value.type = "dict" ->
                        Append(transformed_tables, AnnexRecord(key, value.val))
                  [] OTHER -> transformed_tables)

\* TRUE when building some cell of the record indexed past the end of a column.
RecordRaised(rec) ==
    \E i \in 1..Len(rec.rows) : \E j \in 1..Len(rec.rows[i]) :
        rec.rows[i][j] = IndexError

\* Lines 184-300.
transform_gemini_output_to_frontend_format(data) ==
    LET transformed_tables == TopLevelItems(data, <<>>)
    IN  IF \E k \in 1..Len(transformed_tables) : RecordRaised(transformed_tables[k])
        THEN Raise(IndexError)
        ELSE Return([document_context |->
                        IF DictHas(data, "document_context")
                        THEN DictGet(data, "document_context").val
                        ELSE "",
                     tables |-> transformed_tables])

(***************************************************************************)
(* Bounded RawExtraction inputs                                            *)
(***************************************************************************)

\* Longest column of a generated table.
MaxRows == 2

\* Most sub-heading entries under one fund.
MaxSub == 2

HeaderNames == {"Scope", "Tariff"}

\* The cell of column h at (1-based) row i: distinct per column and row.
CellAt(h, i) ==
    IF h = "Scope" THEN <<"x", "y", "z", "w">>[i] ELSE <<"1", "2", "3", "4">>[i]

Column(h, n) == [i \in 1..n |-> CellAt(h, i)]

\* Every column-oriented table: the headers in either order, every column
\* length 0..MaxRows chosen independently (so ragged tables are included).
Tables ==
    {<<>>}
    \cup { << <<h, Column(h, n)>> >> : h \in HeaderNames, n \in 0..MaxRows }
    \cup { << <<h1, Column(h1, n1)>>, <<h2, Column(h2, n2)>> >> :
              <<h1, h2, n1, n2>> \in
                 { q \in HeaderNames \X HeaderNames \X (0..MaxRows) \X (0..MaxRows) :
                      q[1] # q[2] } }

TExample == << <<"Scope", <<"x", "y">>>>, <<"Tariff", <<"1", "2">>>> >>
TRagged  == << <<"Scope", <<"x", "y">>>>, <<"Tariff", <<"1">>>> >>
TNoHeaders == <<>>

SampleTables == {TExample, TRagged, TNoHeaders}

\* Sub-heading mappings: single-key ones, an empty one and a two-key one.
SampleSubtopics ==
    { << <<"B", TExample>> >>,
      << <<"C", TRagged>> >>,
      << <<"B", TNoHeaders>> >>,
      <<>>,
      << <<"B", TRagged>>, <<"C", TExample>> >> }

RECURSIVE SeqsUpTo(_, _)
SeqsUpTo(S, n) ==
    IF n = 0 THEN {<<>>}
    ELSE LET shorter == SeqsUpTo(S, n - 1)
         IN  shorter \cup { Append(s, x) : s \in shorter, x \in S }

ListValue(l) == [type |-> "list", val |-> l]
DictValue(t) == [type |-> "dict", val |-> t]
StrValue(s)  == [type |-> "str", val |-> s]

FundKeys == {"A", "ANNEX 1"}

SampleValues ==
    { ListValue(l) : l \in SeqsUpTo(SampleSubtopics, MaxSub) }
    \cup { DictValue(t) : t \in SampleTables }

\* Documents with one table of any shape.
OneTableDocs ==
    { << <<k, DictValue(t)>> >> : k \in FundKeys, t \in Tables }
    \cup { << <<k, ListValue(<< << <<"B", t>> >> >>)>> >> : k \in FundKeys, t \in Tables }

\* Documents with up to two top-level headings over the sample tables, with
\* or without a document_context string.
SampleDocs ==
    {<<>>}
    \cup { << <<k, v>> >> : k \in FundKeys, v \in SampleValues }
    \cup { << <<k1, v1>>, <<k2, v2>> >> :
              <<k1, k2, v1, v2>> \in
                 { q \in FundKeys \X FundKeys \X SampleValues \X SampleValues :
                      q[1] # q[2] } }
    \cup { << <<"document_context", StrValue("ctx")>>, <<k, v>> >> :
              k \in FundKeys, v \in SampleValues }

RawExtractions == OneTableDocs \cup SampleDocs

(***************************************************************************)
(* Specification of the transformer                                        *)
(***************************************************************************)

InitTransform ==
    /\ gemini_data \in RawExtractions
    /\ frontend_data = Pending
    /\ IdleAnalysis
    /\ IdleHttp

Transform ==
    /\ frontend_data.status = "pending"
    /\ frontend_data' = transform_gemini_output_to_frontend_format(gemini_data)
    /\ UNCHANGED <<gemini_data, varsAnalysis, varsHttp>>

NextTransform == Transform

SpecTransform == InitTransform /\ [][NextTransform]_vars

(***************************************************************************)
(* Properties of the transformer                                           *)
(***************************************************************************)

\* The tables of a RawExtraction, named by <<e, s, c>>: top-level entry e,
\* and either s = c = 0 (entry e is itself a table) or the c-th item of the
\* s-th sub-heading mapping of the list under entry e.
InputPositions ==
    { <<e, 0, 0>> : e \in { i \in 1..Len(gemini_data) : gemini_data[i][2].type = "dict" } }
    \cup UNION { UNION { { <<e, s, c>> : c \in 1..Len(gemini_data[e][2].val[s]) } :
                         s \in 1..Len(gemini_data[e][2].val) } :
                 e \in { i \in 1..Len(gemini_data) : gemini_data[i][2].type = "list" } }

\* Document order of the input tables.
Before(p, q) ==
    \/ p[1] < q[1]
    \/ p[1] = q[1] /\ p[2] < q[2]
    \/ p[1] = q[1] /\ p[2] = q[2] /\ p[3] < q[3]

\* 1-based place of input table p in document order.
Rank(p) == Cardinality({ q \in InputPositions : Before(q, p) }) + 1

InputFund(p) == gemini_data[p[1]][1]

InputCategory(p) ==
    IF p[2] = 0 THEN gemini_data[p[1]][1]
    ELSE gemini_data[p[1]][2].val[p[2]][p[3]][1]

InputTable(p) ==
    IF p[2] = 0 THEN gemini_data[p[1]][2].val
    ELSE gemini_data[p[1]][2].val[p[2]][p[3]][2]

Called == frontend_data.status # "pending"

Returned == frontend_data.status = "returned"

OutTables == frontend_data.value.tables

\* One record per input table, so that Rank(p) names the record of table p.
OneRecordPerTable == Returned /\ Len(OutTables) = Cardinality(InputPositions)

EqualColumns(t, L) == \A j \in 1..Len(t) : Len(t[j][2]) = L

\* C1: every table (sub-heading or annex) yields a record whose row count is
\* the length of the first header's column, and 0 (record still emitted) when
\* the table has no headers; when all columns have the same length L the
\* record has L rows, each as long as the header list.
C1_RowCount ==
    Called =>
        /\ OneRecordPerTable
        /\ \A p \in InputPositions :
              LET t   == InputTable(p)
                  rec == OutTables[Rank(p)]
              IN  /\ Len(rec.rows) = IF t = <<>> THEN 0 ELSE Len(t[1][2])
                  /\ \A L \in 0..(MaxRows + 1) :
                        EqualColumns(t, L) /\ t # <<>> =>
                            /\ Len(rec.rows) = L
                            /\ \A i \in 1..L : Len(rec.rows[i]) = Len(t)

\* A call that met a table without headers, a rectangular two-column table
\* with two rows, and a sub-heading table whose last column is the shorter.
C1_Witness ==
    /\ Returned
    /\ \E p \in InputPositions : InputTable(p) = <<>>
    /\ \E p \in InputPositions :
          Len(InputTable(p)) = 2 /\ EqualColumns(InputTable(p), 2)
    /\ \E p \in InputPositions :
          /\ p[2] # 0
          /\ Len(InputTable(p)) = 2
          /\ Len(InputTable(p)[2][2]) < Len(InputTable(p)[1][2])

\* C2: the transformer never raises, and in every record every row is as long
\* as the header list, cell (i, j) being the i-th element of the j-th header's
\* column when the column has more than i elements and "" otherwise.
C2_RaggedInvariant ==
    Called =>
        /\ OneRecordPerTable
        /\ \A p \in InputPositions :
              LET t   == InputTable(p)
                  rec == OutTables[Rank(p)]
              IN  \A i \in 1..Len(rec.rows) :
                     /\ Len(rec.rows[i]) = Len(rec.headers)
                     /\ Len(rec.headers) = Len(t)
                     /\ \A j \in 1..Len(t) :
                           rec.rows[i][j] =
                              IF Len(t[j][2]) >= i THEN t[j][2][i] ELSE ""

\* A call on a sub-heading table whose second column is shorter than its
\* first, so that a cell was filled with "".
C2_Witness ==
    /\ Returned
    /\ \E p \in InputPositions :
          /\ p[2] # 0
          /\ Len(InputTable(p)) = 2
          /\ Len(InputTable(p)[2][2]) < Len(InputTable(p)[1][2])
          /\ Rank(p) <= Len(OutTables)
          /\ \E i \in 1..Len(OutTables[Rank(p)].rows) :
                OutTables[Rank(p)].rows[i][2] = ""

RecordsOfFund(k) == { n \in 1..Len(OutTables) : OutTables[n].fund = k }

\* C3: every top-level key whose value is directly a column-oriented mapping
\* yields exactly one record, with fund = category = the key and the headers
\* the mapping's keys in order.
C3_Annex ==
    Called =>
        /\ OneRecordPerTable
        /\ \A p \in InputPositions :
              p[2] = 0 =>
                 /\ RecordsOfFund(InputFund(p)) = {Rank(p)}
                 /\ OutTables[Rank(p)].fund = InputFund(p)
                 /\ OutTables[Rank(p)].category = InputFund(p)
                 /\ OutTables[Rank(p)].headers = DictKeys(InputTable(p))

\* A call on a document with an annex table with two headers next to a fund.
C3_Witness ==
    /\ Returned
    /\ \E p \in InputPositions : p[2] = 0 /\ Len(InputTable(p)) = 2
    /\ \E p \in InputPositions : p[2] # 0

Example ==
    << <<"A", ListValue(<< << <<"B", << <<"Scope", <<"x", "y">>>>,
                                         <<"Tariff", <<"1", "2">>>> >> >> >> >>)>> >>

ExampleRecord ==
    [fund |-> "A", category |-> "B", headers |-> <<"Scope", "Tariff">>,
     rows |-> << <<"x", "1">>, <<"y", "2">> >>]

\* C4: under a top-level key whose value is a sequence, one record per
\* sub-heading entry, with fund = the key, category = the sub-heading and
\* headers = the column names in order; records come in document order; the
\* empty input gives the empty list and the example its single record.
C4_Funds ==
    Called =>
        /\ OneRecordPerTable
        /\ \A e \in 1..Len(gemini_data) :
              gemini_data[e][2].type = "list" =>
                 RecordsOfFund(gemini_data[e][1]) =
                    { Rank(p) : p \in { q \in InputPositions : q[1] = e } }
        /\ \A p \in InputPositions :
              p[2] # 0 =>
                 /\ OutTables[Rank(p)].fund = InputFund(p)
                 /\ OutTables[Rank(p)].category = InputCategory(p)
                 /\ OutTables[Rank(p)].headers = DictKeys(InputTable(p))
        /\ gemini_data = <<>> => OutTables = <<>>
        /\ gemini_data = Example => OutTables = <<ExampleRecord>>

\* A call on a document with an annex placed before a fund that holds two
\* sub-heading mappings.
C4_Witness ==
    /\ Returned
    /\ \E p \in InputPositions, q \in InputPositions, r \in InputPositions :
          /\ p[2] = 0 /\ q[2] = 1 /\ r[2] = 2
          /\ p[1] < q[1] /\ q[1] = r[1]

(***************************************************************************)
(* Python str methods on texts (sequences of characters)                   *)
(***************************************************************************)

\* The letters the texts of this model are written with.
UpperCase == <<"A", "B", "C", "D", "E", "F", "I", "L", "N", "P", "R", "S", "Y">>
LowerCase == <<"a", "b", "c", "d", "e", "f", "i", "l", "n", "p", "r", "s", "y">>

\* str.lower() on one character.
LowerChar(c) ==
    IF \E k \in 1..Len(UpperCase) : UpperCase[k] = c
    THEN LowerCase[CHOOSE k \in 1..Len(UpperCase) : UpperCase[k] = c]
    ELSE c

\* s.lower()
Lower(s) == [i \in 1..Len(s) |-> LowerChar(s[i])]

\* The characters str.strip() removes.
Whitespace == {" ", "\t", "\n", "\r"}

\* s.strip()
Strip(s) ==
    LET kept == { i \in 1..Len(s) : s[i] \notin Whitespace }
    IN  IF kept = {} THEN <<>>
        ELSE SubSeq(s, CHOOSE i \in kept : \A j \in kept : i <= j,
                       CHOOSE i \in kept : \A j \in kept : j <= i)

\* kw in s
Contains(s, kw) ==
    \E i \in 0..(Len(s) - Len(kw)) : SubSeq(s, i + 1, i + Len(kw)) = kw

\* list(set(l)): the distinct elements of l, in an order Python does not fix.
RECURSIVE ListOfSet(_)
ListOfSet(S) ==
    IF S = {} THEN <<>>
    ELSE LET x == CHOOSE y \in S : TRUE IN <<x>> \o ListOfSet(S \ {x})

(***************************************************************************)
(* analysis_engine.build_service_registry                                  *)
(***************************************************************************)

\* Faulty variant: the service name lower-cased but not stripped.
ServiceNameNoStrip(row) == Lower(PyIndex(row, 0))

\* row[0].lower().strip()                                          (line 27)
ServiceName(row) == Strip(Lower(PyIndex(row, 0)))

\* Python's None, as a cell value no table holds.
None == "None"

\* Faulty variant: the tariff read from the wrong column.
ServiceInstanceShifted(table, row) ==
    [fund         |-> table.fund,
     category     |-> table.category,
     tariff       |-> IF Len(row) > 1 THEN PyIndex(row, 1) ELSE None,
     access_rules |-> IF Len(row) > 3 THEN PyIndex(row, 3) ELSE None,
     row_data     |-> row]

\* Lines 31-38: the instance appended for one row.
ServiceInstance(table, row) ==
    [fund         |-> table.fund,
     category     |-> table.category,
     tariff       |-> IF Len(row) > 2 THEN PyIndex(row, 2) ELSE None,
     access_rules |-> IF Len(row) > 3 THEN PyIndex(row, 3) ELSE None,
     row_data     |-> row]

\* Faulty variant: the instance takes the place of the list a known key has.
RegistryAppendReplace(service_registry, service_name, instance) ==
    IF DictHas(service_registry, service_name)
    THEN [i \in 1..Len(service_registry) |->
             IF service_registry[i][1] = service_name
             THEN <<service_name, <<instance>>>>
             ELSE service_registry[i]]
    ELSE Append(service_registry, <<service_name, <<instance>>>>)

\* Lines 28-38: service_registry[service_name].append(instance), the key
\* being created at the end of the dict when it is new.
RegistryAppend(service_registry, service_name, instance) ==
    IF DictHas(service_registry, service_name)
    THEN [i \in 1..Len(service_registry) |->
             IF service_registry[i][1] = service_name
             THEN <<service_name, Append(service_registry[i][2], instance)>>
             ELSE service_registry[i]]
    ELSE Append(service_registry, <<service_name, <<instance>>>>)

\* Line 25: for row in table['rows'].  The accumulator is the registry, or
\* the exception that ended the call.
RECURSIVE RegistryRows(_, _, _)
RegistryRows(table, rows, acc) ==
    IF rows = <<>> \/ acc.status = "raised" THEN acc
    ELSE RegistryRows(table, Tail(rows),
            IF IndexRaises(Head(rows), 0)
            THEN Raise(IndexError)
            ELSE Return(RegistryAppend(acc.value, ServiceName(Head(rows)),
                                       ServiceInstance(table, Head(rows)))))

\* Line 24: for table in tables_data
RECURSIVE RegistryTables(_, _)
RegistryTables(tables, acc) ==
    IF tables = <<>> \/ acc.status = "raised" THEN acc
    ELSE RegistryTables(Tail(tables),
                        RegistryRows(Head(tables), Head(tables).rows, acc))

\* Lines 19-39.
build_service_registry(tables) == RegistryTables(tables, Return(<<>>))

(***************************************************************************)
(* analysis_engine.extract_entities                                        *)
(***************************************************************************)

kwCancer ==
    <<"c", "a", "n", "c", "e", "r">>

kwDialysis ==
    <<"d", "i", "a", "l", "y", "s", "i", "s">>

kwRadiological ==
    <<"b", "a", "s", "i", "c", " ", "r", "a", "d", "i", "o", "l", "o", "g",
      "i", "c", "a", "l", " ", "e", "x", "a", "m", "i", "n", "a", "t", "i",
      "o", "n", "s">>

\* Python truth value of a str cell.
Truthy(cell) == cell # ""

\* Lines 136-145: what one row adds to the three lists.  The accumulator is
\* the three lists, or the exception that ended the call; row[2] is only
\* evaluated when the radiological term is in the scope text.
EntitiesRow(row, acc) ==
    IF IndexRaises(row, 0) THEN Raise(IndexError)
    ELSE LET scope_text == Lower(PyIndex(row, 0))
             conditions == IF Contains(scope_text, kwCancer)
                           THEN Append(acc.value.conditions, kwCancer)
                           ELSE acc.value.conditions
             services   == IF Contains(scope_text, kwDialysis)
                           THEN Append(acc.value.services, kwDialysis)
                           ELSE acc.value.services
         IN  IF Contains(scope_text, kwRadiological)
             THEN IF IndexRaises(row, 2) THEN Raise(IndexError)
                  ELSE Return([conditions |-> conditions,
                               services |-> services,
                               undefined_terms |->
                                  IF ~Truthy(PyIndex(row, 2))
                                  THEN Append(acc.value.undefined_terms, kwRadiological)
                                  ELSE acc.value.undefined_terms])
             ELSE Return([conditions |-> conditions,
                          services |-> services,
                          undefined_terms |-> acc.value.undefined_terms])

\* Line 134: for row in table['rows']
RECURSIVE EntitiesRows(_, _)
EntitiesRows(rows, acc) ==
    IF rows = <<>> \/ acc.status = "raised" THEN acc
    ELSE EntitiesRows(Tail(rows), EntitiesRow(Head(rows), acc))

\* Line 133: for table in tables_data
RECURSIVE EntitiesTables(_, _)
EntitiesTables(tables, acc) ==
    IF tables = <<>> \/ acc.status = "raised" THEN acc
    ELSE EntitiesTables(Tail(tables), EntitiesRows(Head(tables).rows, acc))

Range(l) == { l[i] : i \in 1..Len(l) }

\* Lines 122-151.
extract_entities(tables) ==
    LET lists == EntitiesTables(tables,
                    Return([conditions |-> <<>>, services |-> <<>>,
                            undefined_terms |-> <<>>]))
    IN  IF lists.status = "raised" THEN lists
        ELSE Return([conditions      |-> ListOfSet(Range(lists.value.conditions)),
                     services        |-> ListOfSet(Range(lists.value.services)),
                     undefined_terms |-> ListOfSet(Range(lists.value.undefined_terms))])

(***************************************************************************)
(* analysis_engine.detect_contradictions                                   *)
(***************************************************************************)

\* Faulty variant: every service of the registry taken as a candidate.
PotentialContradictionsAll(service_registry) ==
    SelectSeq(service_registry, LAMBDA e : Len(e[2]) > 0)

\* Lines 99-103: the services with more than one instance, in registry order.
PotentialContradictions(service_registry) ==
    SelectSeq(service_registry, LAMBDA e : Len(e[2]) > 1)

\* f"{inst['fund']} > {inst['category']}"                        (line 114)
Location(inst) == inst.fund \o " > " \o inst.category

\* Lines 110-118.
Finding(service, instances, analysis) ==
    [type      |-> "CONTRADICTION",
     service   |-> service,
     severity  |-> analysis.severity,
     locations |-> [i \in 1..Len(instances) |-> Location(instances[i])],
     issue     |-> analysis.issue,
     evidence  |-> analysis.evidence,
     impact    |-> analysis.impact]

FullAnalysis(b) ==
    [has_contradiction |-> b, severity |-> "high", issue |-> "issue",
     evidence |-> <<"quote 1", "quote 2">>, impact |-> "impact"]

\* Lines 82-92: what one analyze_contradiction call can come to: the parsed
\* JSON object of the model's answer (complete, or with only the flag, or
\* without it), or the exception of a failed request or of json.loads.
AnalysisOutcomes ==
    { Return(FullAnalysis(TRUE)),
      Return(FullAnalysis(FALSE)),
      Return([has_contradiction |-> FALSE]),
      Return([issue |-> "issue"]),
      Raise("JSONDecodeError") }

\* The keys lines 109-117 read from the analysis; a missing one is a KeyError.
KeysRead(analysis) ==
    IF "has_contradiction" \notin DOMAIN analysis THEN {"has_contradiction"}
    ELSE IF analysis.has_contradiction
         THEN {"has_contradiction", "severity", "issue", "evidence", "impact"}
         ELSE {"has_contradiction"}

(***************************************************************************)
(* Bounded TableRecord inputs of the analysis functions                    *)
(***************************************************************************)

\* Most rows in all tables of one request together.
MaxTotalRows == 3

TableHeaders == <<"Scope", "Access Point", "Tariff", "Access Rules">>

\* Scope texts: "Dialysis ", "<tab>CANCER care " and
\* "Basic Radiological Examinations".
TXT_DIALYSIS_CAP_SP == <<"D", "i", "a", "l", "y", "s", "i", "s", " ">>

TXT_CANCER_CARE ==
    <<"\t", "C", "A", "N", "C", "E", "R", " ", "c", "a", "r", "e", " ">>

TXT_RADIO_CAP ==
    <<"B", "a", "s", "i", "c", " ", "R", "a", "d", "i", "o", "l", "o", "g",
      "i", "c", "a", "l", " ", "E", "x", "a", "m", "i", "n", "a", "t",
      "i", "o", "n", "s">>

\* Rows of one to four columns (and one without any), whose first column
\* holds the keywords in several spellings; the third column is the tariff.
RowPool ==
    { << TXT_DIALYSIS_CAP_SP, "Level 4", "100", "rule A" >>,
      << kwDialysis, "Level 5", "200" >>,
      << TXT_CANCER_CARE, "Level 2" >>,
      << TXT_RADIO_CAP, "Level 3", "" >>,
      << kwRadiological, "Level 3", "50", "rule B" >>,
      << kwRadiological >>,
      << >> }

TableOf(n, rows) ==
    [fund     |-> <<"F1", "F2">>[n],
     category |-> <<"C1", "C2">>[n],
     headers  |-> TableHeaders,
     rows     |-> rows]

\* The empty list, and every way to lay up to MaxTotalRows rows out over
\* two tables.
TablesData ==
    {<<>>}
    \cup { << TableOf(1, SubSeq(q[1], 1, q[2])),
              TableOf(2, SubSeq(q[1], q[2] + 1, Len(q[1]))) >> :
              q \in { r \in SeqsUpTo(RowPool, MaxTotalRows) \X (0..MaxTotalRows) :
                         r[2] <= Len(r[1]) } }

(***************************************************************************)
(* Specification of the analysis functions                                 *)
(***************************************************************************)

InitAnalysis ==
    /\ tables_data \in TablesData
    /\ pc = "idle"
    /\ registry_out = Pending
    /\ entities_out = Pending
    /\ potential = <<>>
    /\ contradictions = <<>>
    /\ calls = <<>>
    /\ detect_out = Pending
    /\ IdleTransform
    /\ IdleHttp

\* A call of build_service_registry(tables_data).
BuildRegistry ==
    /\ pc = "idle"
    /\ registry_out' = build_service_registry(tables_data)
    /\ pc' = "registry_done"
    /\ UNCHANGED <<tables_data, entities_out, potential, contradictions, calls,
                   detect_out, varsTransform, varsHttp>>

\* A call of extract_entities(tables_data).
ExtractEntities ==
    /\ pc = "idle"
    /\ entities_out' = extract_entities(tables_data)
    /\ pc' = "entities_done"
    /\ UNCHANGED <<tables_data, registry_out, potential, contradictions, calls,
                   detect_out, varsTransform, varsHttp>>

\* detect_contradictions, lines 98-105, up to the first external call (or to
\* the return, when there is none to make).
DetectStart ==
    /\ pc = "idle"
    /\ registry_out' = build_service_registry(tables_data)
    /\ IF registry_out'.status = "raised"
       THEN /\ detect_out' = registry_out'
            /\ potential' = potential
            /\ pc' = "detect_done"
       ELSE /\ potential' = PotentialContradictions(registry_out'.value)
            /\ IF potential' = <<>>
               THEN detect_out' = Return(<<>>) /\ pc' = "detect_done"
               ELSE detect_out' = detect_out /\ pc' = "analyzing"
    /\ UNCHANGED <<tables_data, entities_out, contradictions, calls, varsTransform,
                   varsHttp>>

\* Faulty variant: a failed analysis call ends the loop and the findings
\* collected so far are returned.
AnalyzeContradictionKeepsFindings ==
    /\ pc = "analyzing"
    /\ \E outcome \in AnalysisOutcomes :
          LET service   == potential[Len(calls) + 1][1]
              instances == potential[Len(calls) + 1][2]
              last      == Len(calls) + 1 = Len(potential)
              usable    == /\ outcome.status = "returned"
                           /\ KeysRead(outcome.value) \subseteq DOMAIN outcome.value
          IN  /\ calls' = Append(calls, [service |-> service,
                                         instances |-> instances,
                                         outcome |-> outcome])
              /\ contradictions' =
                    IF usable /\ outcome.value.has_contradiction
                    THEN Append(contradictions,
                                Finding(service, instances, outcome.value))
                    ELSE contradictions
              /\ detect_out' = IF last \/ ~usable THEN Return(contradictions')
                               ELSE detect_out
              /\ pc' = IF last \/ ~usable THEN "detect_done" ELSE "analyzing"
    /\ UNCHANGED <<tables_data, registry_out, entities_out, potential, varsTransform,
                   varsHttp>>

\* detect_contradictions, lines 106-120: one turn of the loop, that is one
\* analyze_contradiction round trip and what is done with its answer, up to
\* the next call, the return or the exception.
AnalyzeContradiction ==
    /\ pc = "analyzing"
    /\ \E outcome \in AnalysisOutcomes :
          LET service   == potential[Len(calls) + 1][1]
              instances == potential[Len(calls) + 1][2]
              last      == Len(calls) + 1 = Len(potential)
          IN  /\ calls' = Append(calls, [service |-> service,
                                         instances |-> instances,
                                         outcome |-> outcome])
              /\ IF outcome.status = "raised"
                 THEN /\ detect_out' = outcome
                      /\ contradictions' = contradictions
                      /\ pc' = "detect_done"
                 ELSE IF ~(KeysRead(outcome.value) \subseteq DOMAIN outcome.value)
                 THEN /\ detect_out' = Raise("KeyError")
                      /\ contradictions' = contradictions
                      /\ pc' = "detect_done"
                 ELSE /\ contradictions' =
                            IF outcome.value.has_contradiction
                            THEN Append(contradictions,
                                        Finding(service, instances, outcome.value))
                            ELSE contradictions
                      /\ detect_out' = IF last THEN Return(contradictions')
                                       ELSE detect_out
                      /\ pc' = IF last THEN "detect_done" ELSE "analyzing"
    /\ UNCHANGED <<tables_data, registry_out, entities_out, potential, varsTransform,
                   varsHttp>>

NextAnalysis ==
    \/ BuildRegistry
    \/ ExtractEntities
    \/ DetectStart
    \/ AnalyzeContradiction

SpecAnalysis == InitAnalysis /\ [][NextAnalysis]_vars

(***************************************************************************)
(* Properties of the analysis functions                                    *)
(***************************************************************************)

\* The rows of the request, named by <<t, r>>: row r of table t.
RowPositions ==
    UNION { { <<t, r>> : r \in 1..Len(tables_data[t].rows) } :
            t \in 1..Len(tables_data) }

RowAt(q) == tables_data[q[1]].rows[q[2]]

\* The precondition of the analysis functions.
EveryRowHasAColumn == \A q \in RowPositions : Len(RowAt(q)) >= 1

Registry == registry_out.value

\* The registry keys under which an instance made from row q is filed.
KeysHolding(q) ==
    { k \in 1..Len(Registry) :
         \E n \in 1..Len(Registry[k][2]) :
            /\ Registry[k][2][n].row_data = RowAt(q)
            /\ Registry[k][2][n].fund = tables_data[q[1]].fund
            /\ Registry[k][2][n].category = tables_data[q[1]].category }

\* C5: rows whose first columns are equal after lower-casing and trimming
\* are filed under one and the same key ("Dialysis " and "dialysis" under
\* "dialysis"), and no key holds an upper-case letter or starts or ends with
\* whitespace.
C5_Grouping ==
    pc = "registry_done" /\ EveryRowHasAColumn =>
        /\ registry_out.status = "returned"
        /\ \A q1 \in RowPositions, q2 \in RowPositions :
              Strip(Lower(RowAt(q1)[1])) = Strip(Lower(RowAt(q2)[1])) =>
                 /\ KeysHolding(q1) = KeysHolding(q2)
                 /\ Cardinality(KeysHolding(q1)) = 1
        /\ \A q \in RowPositions :
              RowAt(q)[1] \in {TXT_DIALYSIS_CAP_SP, kwDialysis} =>
                 \A k \in KeysHolding(q) : Registry[k][1] = kwDialysis
        /\ \A k \in 1..Len(Registry) :
              LET key == Registry[k][1]
              IN  /\ \A i \in 1..Len(key) : key[i] \notin Range(UpperCase)
                  /\ key # <<>> =>
                        key[1] \notin Whitespace /\ key[Len(key)] \notin Whitespace
                  /\ \A k2 \in 1..Len(Registry) : Registry[k2][1] = key => k2 = k

\* A registry built from "Dialysis " in one table and "dialysis" in the other.
C5_Witness ==
    /\ pc = "registry_done"
    /\ registry_out.status = "returned"
    /\ \E q1 \in RowPositions, q2 \in RowPositions :
          /\ q1[1] # q2[1]
          /\ RowAt(q1)[1] = TXT_DIALYSIS_CAP_SP
          /\ RowAt(q2)[1] = kwDialysis

\* The instances of the registry, all keys together.
AllInstances == UNION { Range(Registry[k][2]) : k \in 1..Len(Registry) }

\* What C7 says of the instance made from a row of table t.
GracefulInstance(inst, t, row) ==
    /\ inst.row_data = row
    /\ inst.fund = t.fund
    /\ inst.category = t.category
    /\ inst.tariff = IF Len(row) < 3 THEN None ELSE row[3]
    /\ inst.access_rules = IF Len(row) < 4 THEN None ELSE row[4]

\* C7: when every row has at least one column build_service_registry does
\* not raise; tariff is null for a row of fewer than 3 columns and row[2]
\* otherwise, access_rules is null for fewer than 4 columns and row[3]
\* otherwise, row_data is the row and fund and category are its table's.
C7_ShortRows ==
    pc = "registry_done" /\ EveryRowHasAColumn =>
        /\ registry_out.status = "returned"
        /\ \A q \in RowPositions :
              \E inst \in AllInstances :
                 GracefulInstance(inst, tables_data[q[1]], RowAt(q))
        /\ \A inst \in AllInstances :
              \E q \in RowPositions :
                 GracefulInstance(inst, tables_data[q[1]], RowAt(q))

\* A registry built from rows of one, three and four columns.
C7_Witness ==
    /\ pc = "registry_done"
    /\ registry_out.status = "returned"
    /\ \E q \in RowPositions : Len(RowAt(q)) = 1
    /\ \E q \in RowPositions : Len(RowAt(q)) = 3
    /\ \E q \in RowPositions : Len(RowAt(q)) = 4

\* The candidates: the registry's services with more than one instance, in
\* registry order.
Candidates == SelectSeq(Registry, LAMBDA e : Len(e[2]) > 1)

\* The calls whose analysis reported a contradiction, in call order.
Flagged ==
    SelectSeq(calls, LAMBDA c : c.outcome.value.has_contradiction)

\* C6: the external analysis is given candidates only (more than one
\* instance), and a returned result holds a CONTRADICTION finding exactly for
\* the candidates whose analysis reported has_contradiction, each with one
\* "fund > category" location per instance, in registry order.
C6_Candidates ==
    /\ \A i \in 1..Len(calls) :
          /\ Len(calls[i].instances) > 1
          /\ i <= Len(Candidates)
          /\ calls[i].service = Candidates[i][1]
          /\ calls[i].instances = Candidates[i][2]
    /\ pc = "detect_done" /\ detect_out.status = "returned" =>
          /\ Len(calls) = Len(Candidates)
          /\ Len(detect_out.value) = Len(Flagged)
          /\ \A n \in 1..Len(Flagged) :
                /\ detect_out.value[n].type = "CONTRADICTION"
                /\ detect_out.value[n].service = Flagged[n].service
                /\ Len(detect_out.value[n].locations) = Len(Flagged[n].instances)
                /\ \A i \in 1..Len(Flagged[n].instances) :
                      detect_out.value[n].locations[i] =
                         Flagged[n].instances[i].fund \o " > "
                            \o Flagged[n].instances[i].category

\* A returned result with a finding for a service of two instances in
\* different tables, from a request that also holds a service of one instance.
C6_Witness ==
    /\ pc = "detect_done"
    /\ detect_out.status = "returned"
    /\ Len(detect_out.value) = 1
    /\ detect_out.value[1].locations = <<"F1 > C1", "F2 > C2">>
    /\ Len(Registry) = 2

Texts(l) == { l[i] : i \in 1..Len(l) }

NoDuplicates(l) == \A i \in 1..Len(l), j \in 1..Len(l) : l[i] = l[j] => i = j

\* C8: when every row has at least one column extract_entities returns,
\* without raising, three duplicate-free lists: conditions holds "cancer"
\* and services "dialysis" exactly when some row's lower-cased first column
\* contains the word, and undefined_terms holds "basic radiological
\* examinations" exactly when some row's first column contains the term and
\* the row's third column is empty or absent.
C8_Entities ==
    pc = "entities_done" /\ EveryRowHasAColumn =>
        /\ entities_out.status = "returned"
        /\ NoDuplicates(entities_out.value.conditions)
        /\ NoDuplicates(entities_out.value.services)
        /\ NoDuplicates(entities_out.value.undefined_terms)
        /\ Texts(entities_out.value.conditions) =
              IF \E q \in RowPositions : Contains(Lower(RowAt(q)[1]), kwCancer)
              THEN {kwCancer} ELSE {}
        /\ Texts(entities_out.value.services) =
              IF \E q \in RowPositions : Contains(Lower(RowAt(q)[1]), kwDialysis)
              THEN {kwDialysis} ELSE {}
        /\ Texts(entities_out.value.undefined_terms) =
              IF \E q \in RowPositions :
                    /\ Contains(Lower(RowAt(q)[1]), kwRadiological)
                    /\ (Len(RowAt(q)) < 3 \/ RowAt(q)[3] = "")
              THEN {kwRadiological} ELSE {}

\* Row position a comes before row position b: table order, then row order.
RowBefore(a, b) == a[1] < b[1] \/ (a[1] = b[1] /\ a[2] < b[2])

\* The normalized first column of every row, by row position.
NormalizedFirst ==
    [q \in RowPositions |-> Strip(Lower(RowAt(q)[1]))]

\* The n-th, in input order, of the row positions in the set.
NthRow(positions, n) ==
    CHOOSE q \in positions :
       Cardinality({ b \in positions : RowBefore(b, q) }) = n - 1

RECURSIVE InstanceCount(_)
InstanceCount(registry) ==
    IF registry = <<>> THEN 0
    ELSE Len(Head(registry)[2]) + InstanceCount(Tail(registry))

\* C14: for tables whose rows all have a first column, the registry holds as
\* many instances as the tables hold rows; no key has an empty list; and the
\* list of a key is made, one instance per row and in input order (table
\* order, then row order), of exactly the rows whose normalized first column
\* is that key.
C14_RowsConserved ==
    pc = "registry_done" /\ EveryRowHasAColumn =>
        LET first == NormalizedFirst
        IN  /\ registry_out.status = "returned"
            /\ InstanceCount(Registry) = Cardinality(RowPositions)
            /\ \A q \in RowPositions :
                  \E k \in 1..Len(Registry) : Registry[k][1] = first[q]
            /\ \A k \in 1..Len(Registry) :
                  LET key       == Registry[k][1]
                      instances == Registry[k][2]
                      rows      == { q \in RowPositions : first[q] = key }
                  IN  /\ Len(instances) >= 1
                      /\ Len(instances) = Cardinality(rows)
                      /\ \A k2 \in 1..Len(Registry) :
                            Registry[k2][1] = key => k2 = k
                      /\ \A n \in 1..Len(instances) :
                            LET q == NthRow(rows, n)
                            IN  /\ instances[n].row_data = RowAt(q)
                                /\ instances[n].fund = tables_data[q[1]].fund
                                /\ instances[n].category =
                                      tables_data[q[1]].category

\* A registry of two keys from three rows in two tables: the rows of the
\* first key lie on either side of the row of the second key.
C14_Witness ==
    /\ pc = "registry_done"
    /\ EveryRowHasAColumn
    /\ Len(tables_data) = 2
    /\ Len(tables_data[1].rows) = 2
    /\ Len(tables_data[2].rows) = 1
    /\ registry_out.status = "returned"
    /\ Len(Registry) = 2
    /\ Len(Registry[1][2]) = 2
    /\ Registry[1][2][1].row_data # Registry[1][2][2].row_data
    /\ Registry[1][2][2].fund = "F2"

(***************************************************************************)
(* Specification of detect_contradictions on requests with several         *)
(* candidate services                                                      *)
(***************************************************************************)

\* Most rows in all tables of one such request together.
MaxDetectRows == 4

\* Two services, each in two spellings.
DetectRowPool ==
    { << TXT_DIALYSIS_CAP_SP, "Level 4", "100", "rule A" >>,
      << kwDialysis, "Level 5", "200" >>,
      << TXT_RADIO_CAP, "Level 3", "" >>,
      << kwRadiological, "Level 3", "50", "rule B" >> }

\* Every way to lay up to MaxDetectRows of these rows out over two tables.
DetectTablesData ==
    { << TableOf(1, SubSeq(q[1], 1, q[2])),
         TableOf(2, SubSeq(q[1], q[2] + 1, Len(q[1]))) >> :
         q \in { r \in SeqsUpTo(DetectRowPool, MaxDetectRows) \X (0..MaxDetectRows) :
                    r[2] <= Len(r[1]) } }

InitDetect ==
    /\ tables_data \in DetectTablesData
    /\ pc = "idle"
    /\ registry_out = Pending
    /\ entities_out = Pending
    /\ potential = <<>>
    /\ contradictions = <<>>
    /\ calls = <<>>
    /\ detect_out = Pending
    /\ IdleTransform
    /\ IdleHttp

NextDetect ==
    \/ DetectStart
    \/ AnalyzeContradiction

SpecDetect == InitDetect /\ [][NextDetect]_vars

\* The call ended in an exception: the request failed, or the answer was
\* not JSON.
FailedCall(c) == c.outcome.status = "raised"

\* C13: detect_contradictions calls the external analysis for the candidate
\* services in registry order, each at most once and, when it returns, each
\* exactly once; a call that fails or whose answer is not JSON is the last
\* call made (no retry, no further candidate), and detect_contradictions
\* then ends with that exception and returns nothing, whatever findings the
\* earlier calls had collected.
C13_OncePerCandidate ==
    registry_out.status = "returned" =>
        /\ Len(calls) <= Len(Candidates)
        /\ \A i \in 1..Len(calls) : calls[i].service = Candidates[i][1]
        /\ \A i, j \in 1..Len(calls) :
              i # j => calls[i].service # calls[j].service
        /\ pc = "detect_done" /\ detect_out.status = "returned" =>
              Len(calls) = Len(Candidates)
        /\ pc = "analyzing" => detect_out = Pending
        /\ \A i \in 1..Len(calls) :
              FailedCall(calls[i]) =>
                 /\ i = Len(calls)
                 /\ pc = "detect_done"
                 /\ detect_out = calls[i].outcome
                 /\ "value" \notin DOMAIN detect_out

\* Two candidates: the first analysis reported a contradiction and its
\* finding was collected, the second answer was not JSON.
C13_Witness ==
    /\ pc = "detect_done"
    /\ Len(calls) = 2
    /\ calls[1].outcome = Return(FullAnalysis(TRUE))
    /\ Len(contradictions) = 1
    /\ calls[2].outcome = Raise("JSONDecodeError")
    /\ detect_out.status = "raised"

(***************************************************************************)
(* pathlib and the upload directory                                        *)
(***************************************************************************)

\* s.endswith(suffix)
EndsWith(s, suffix) ==
    /\ Len(s) >= Len(suffix)
    /\ SubSeq(s, Len(s) - Len(suffix) + 1, Len(s)) = suffix

\* s.split("/")
RECURSIVE SplitSlash(_, _)
SplitSlash(s, current) ==
    IF s = <<>> THEN <<current>>
    ELSE IF Head(s) = "/" THEN <<current>> \o SplitSlash(Tail(s), <<>>)
    ELSE SplitSlash(Tail(s), Append(current, Head(s)))

DOT == <<".">>
DOTDOT == <<".", ".">>
DOT_PDF == <<".", "p", "d", "f">>

\* UPLOAD_DIR = Path("uploads")                                  (line 27)
UPLOAD_DIR == <<"u", "p", "l", "o", "a", "d", "s">>

\* UPLOAD_DIR / name: pathlib drops empty and "." components and keeps "..";
\* a name that starts with "/" replaces the directory.
JoinUploadDir(name) ==
    LET parts == SelectSeq(SplitSlash(name, <<>>),
                           LAMBDA seg : seg # <<>> /\ seg # DOT)
    IN  IF name # <<>> /\ name[1] = "/"
        THEN [absolute |-> TRUE, parts |-> parts]
        ELSE [absolute |-> FALSE, parts |-> <<UPLOAD_DIR>> \o parts]

\* The directory a relative path leads to, as the names below the working
\* directory, or NoEntry.  The working directory holds UPLOAD_DIR, which
\* holds files only; what lies above the working directory is not modelled
\* and is taken not to hold the files a request names.
NoEntry == << <<"?">> >>

RECURSIVE WalkDirs(_, _)
WalkDirs(parts, at) ==
    IF parts = <<>> \/ at = NoEntry THEN at
    ELSE WalkDirs(Tail(parts),
            IF Head(parts) = DOTDOT
            THEN IF at = <<>> THEN NoEntry ELSE SubSeq(at, 1, Len(at) - 1)
            ELSE IF at = <<>> /\ Head(parts) = UPLOAD_DIR THEN <<UPLOAD_DIR>>
            ELSE NoEntry)

\* path.exists(), on the file system whose UPLOAD_DIR holds `files`.
PathExists(files, path) ==
    /\ ~path.absolute
    /\ path.parts # <<>>
    /\ WalkDirs(SubSeq(path.parts, 1, Len(path.parts) - 1), <<>>) = <<UPLOAD_DIR>>
    /\ \E f \in files : f.name = path.parts[Len(path.parts)]

\* file_path.open("wb") followed by the write of `content`: the file is
\* created, or truncated and rewritten.
WriteFile(files, name, content) ==
    { f \in files : f.name # name } \cup {[name |-> name, content |-> content]}

(***************************************************************************)
(* main.upload_pdf and main.extract_pdf_tables                             *)
(***************************************************************************)

\* Most files the upload directory comes to hold.
MaxUploads == 2

UuidPool == << <<"i", "d", "1">>, <<"i", "d", "2">>, <<"i", "d", "3">>,
               <<"i", "d", "4">> >>

\* str(uuid.uuid4()): a name no file of the directory has yet.  Random
\* UUIDs are taken to be unique; a repeated draw is not modelled.
Uuid4(files) ==
    { UuidPool[i] : i \in 1..MaxUploads } \
       { u \in { UuidPool[i] : i \in 1..MaxUploads } :
            \E f \in files : f.name = u \o DOT_PDF }

\* Faulty variant: the file type test done without regard to case.
IsPdfNameAnyCase(filename) == EndsWith(Lower(filename), DOT_PDF)

\* file.filename.endswith('.pdf')                                (line 45)
IsPdfName(filename) == EndsWith(filename, DOT_PDF)

HTTPException(op, status_code, detail) ==
    [op |-> op, status |-> status_code, detail |-> detail]

\* Lines 323-349 (the order of the two name lists is not fixed by Python:
\* they are given as sets).
get_extraction_summary(tables) ==
    [total_tables      |-> Len(tables),
     total_rows        |-> LET RECURSIVE Sum(_)
                               Sum(l) == IF l = <<>> THEN 0
                                         ELSE Len(Head(l).rows) + Sum(Tail(l))
                           IN  Sum(tables),
     unique_funds      |-> Cardinality({ tables[i].fund : i \in 1..Len(tables) }),
     unique_categories |-> Cardinality({ tables[i].category : i \in 1..Len(tables) }),
     funds             |-> { tables[i].fund : i \in 1..Len(tables) },
     categories        |-> { tables[i].category : i \in 1..Len(tables) }]

\* Lines 87-182: what extract_tables_with_gemini can come to: the parsed
\* JSON object of the model's answer, or the exception the function raises.
GeminiOutcomes ==
    { Return(<<>>),
      Return(<< <<"A", ListValue(<< << <<"B", TExample>> >> >>)>>,
                <<"ANNEX 1", DictValue(TRagged)>> >>),
      Raise("Failed to extract tables with Gemini"),
      Raise("Failed to parse Gemini response as JSON") }

\* Lines 302-321.
extract_tables_from_pdf(gemini) ==
    IF gemini.status = "raised" THEN gemini
    ELSE transform_gemini_output_to_frontend_format(gemini.value)

(***************************************************************************)
(* main.analyze_contradictions, main.analyze_gaps_endpoint and             *)
(* main.get_clarification_endpoint, with the analysis_engine functions     *)
(* they call                                                               *)
(***************************************************************************)

\* The exception of d[k] for a key the dict does not hold.
KeyError(k) == "KeyError: " \o k

\* The keys the handlers and get_clarification read.
KeyNames ==
    {"tables", "finding", "pdf_context", "type", "issue", "evidence", "impact"}

\* str(e): the message of the exception.  A KeyError gives the repr of its
\* key (for the KeyError of detect_contradictions that is the key line 109
\* reads, the one the modelled answers lack); Exception(message) gives the
\* message.
ExceptionStr(e) ==
    CASE e = IndexError -> "list index out of range"
      [] e = "JSONDecodeError" -> "Expecting value: line 1 column 1 (char 0)"
      [] e = "KeyError" -> "'has_contradiction'"
      [] \E k \in KeyNames : e = KeyError(k) ->
            "'" \o (CHOOSE k \in KeyNames : e = KeyError(k)) \o "'"
      [] OTHER -> e

\* analysis_engine lines 106-120: the loop over the candidates, given the
\* outcomes of the analyze_contradiction calls in the order they are made.
RECURSIVE DetectLoop(_, _, _)
DetectLoop(potential_contradictions, answers, found) ==
    IF potential_contradictions = <<>> THEN Return(found)
    ELSE LET service   == Head(potential_contradictions)[1]
             instances == Head(potential_contradictions)[2]
             analysis  == Head(answers)
         IN  IF analysis.status = "raised" THEN analysis
             ELSE IF ~(KeysRead(analysis.value) \subseteq DOMAIN analysis.value)
             THEN Raise("KeyError")
             ELSE DetectLoop(Tail(potential_contradictions), Tail(answers),
                             IF analysis.value.has_contradiction
                             THEN Append(found, Finding(service, instances,
                                                        analysis.value))
                             ELSE found)

\* analysis_engine lines 94-120, as one call.
detect_contradictions(tables, answers) ==
    LET service_registry == build_service_registry(tables)
    IN  IF service_registry.status = "raised" THEN service_registry
        ELSE DetectLoop(PotentialContradictions(service_registry.value),
                        answers, <<>>)

\* One outcome for every analyze_contradiction call the tables can lead to.
AnswersFor(tables) ==
    LET service_registry == build_service_registry(tables)
        n == IF service_registry.status = "raised" THEN 0
             ELSE Len(PotentialContradictions(service_registry.value))
    IN  [1..n -> AnalysisOutcomes]

\* analysis_engine lines 160-206: what analyze_gaps can come to: the parsed
\* JSON array of the model's answer, or the exception of json.loads or of
\* the failed request.
GapsOutcomes ==
    { Return(<<>>),
      Return(<<[type |-> "GAP", severity |-> "low", issue |-> "issue"]>>),
      Raise("JSONDecodeError"),
      Raise("504 Deadline Exceeded") }

\* analysis_engine lines 208-214.
find_gaps(tables, answer) ==
    LET entities == extract_entities(tables)
    IN  IF entities.status = "raised" THEN entities ELSE answer

\* analysis_engine lines 239-254: what the Anthropic request can come to:
\* the text of the answer's text blocks, or the exception of the request.
ClarifyOutcomes ==
    { Return("clarification"), Return(""), Raise("Connection error.") }

\* The keys of the finding the prompt reads, in the order of lines 232-235.
FindingKeys == <<"type", "issue", "evidence", "impact">>

\* analysis_engine lines 216-265.
get_clarification(finding, pdf_context, answer) ==
    LET missing == { i \in 1..Len(FindingKeys) :
                        FindingKeys[i] \notin DOMAIN finding }
    IN  IF missing # {}
        THEN Raise(KeyError(FindingKeys[
                      CHOOSE i \in missing : \A j \in missing : i <= j]))
        ELSE answer

\* Faulty variant: the exception left to the application's exception
\* handler (main.py lines 163-173).
HandlerFailureUncaught(op, e) ==
    [op |-> op, status |-> 500, success |-> FALSE,
     error |-> "An unexpected error occurred", detail |-> ExceptionStr(e)]

\* return {"success": False, "error": str(e)}
\*                                   (main.py lines 131-132, 140-141, 156-160)
HandlerFailure(op, e) ==
    [op |-> op, status |-> 200, success |-> FALSE, error |-> ExceptionStr(e)]

(***************************************************************************)
(* Bounded HTTP requests                                                   *)
(***************************************************************************)

FN_A_PDF == <<"a", ".", "p", "d", "f">>

FN_A_PDF_UP == <<"a", ".", "P", "D", "F">>

FN_A_TXT == <<"a", ".", "t", "x", "t">>

FN_DOT_PDF_ONLY == <<".", "p", "d", "f">>

FN_PDF_WORD == <<"p", "d", "f">>

FN_PDF_EXE == <<"a", ".", "p", "d", "f", ".", "e", "x", "e">>

FileNames ==
    {FN_A_PDF, FN_A_PDF_UP, FN_A_TXT, FN_DOT_PDF_ONLY, FN_PDF_WORD, FN_PDF_EXE}

FileContents == {"%PDF-1.4 one", "%PDF-1.7 two"}

\* What a partly written file holds when the copy fails.
Truncated == ""

\* The file_id values a client sends: the ids uploads can return, the same
\* ids written with "./" or "../uploads/" before or "/x" behind, an id no
\* upload returns, an absolute path and the empty string.
RequestedFileIds ==
    LET ids == { UuidPool[i] : i \in 1..MaxUploads }
    IN  ids
        \cup { <<".", "/">> \o u : u \in ids }
        \cup { <<".", ".", "/">> \o UPLOAD_DIR \o <<"/">> \o u : u \in ids }
        \cup { u \o <<"/", "x">> : u \in ids }
        \cup { <<"n", "o", "n", "e">>, <<"/", "t", "m", "p", "/", "x">>, <<>> }

\* Tables sent to the analysis endpoints: none, one service in two rows,
\* and a row without columns.
TablesSent ==
    { <<>>,
      << TableOf(1, << << TXT_DIALYSIS_CAP_SP, "Level 4", "100", "rule A" >>,
                       << kwDialysis, "Level 5", "200" >> >>) >>,
      << TableOf(2, << << >> >>) >> }

\* JSON bodies of /analyze/contradictions and /analyze/gaps: with the key
\* 'tables', and without it.
AnalysisBodies ==
    { [tables |-> t] : t \in TablesSent } \cup { [rows |-> <<>>] }

FullFinding ==
    [type |-> "CONTRADICTION", issue |-> "issue",
     evidence |-> <<"quote 1">>, impact |-> "impact"]

\* JSON bodies of /clarify: complete, with a finding that lacks 'issue',
\* without 'pdf_context', and without 'finding'.
ClarifyBodies ==
    { [finding |-> FullFinding, pdf_context |-> "context"],
      [finding |-> [type |-> "GAP", evidence |-> "quote", impact |-> "impact"],
       pdf_context |-> "context"],
      [finding |-> FullFinding],
      [pdf_context |-> "context"] }

(***************************************************************************)
(* Specification of the HTTP handlers                                      *)
(***************************************************************************)

InitHttp ==
    /\ uploads = {}
    /\ returned_ids = {}
    /\ request = [op |-> "none"]
    /\ response = [op |-> "none"]
    /\ try_out = [status |-> "pending"]
    /\ handlers = <<>>
    /\ IdleTransform
    /\ IdleAnalysis

\* POST /upload, lines 37-76.  `io` is how the two file operations of lines
\* 57-58 end: both succeed, open() raises, or the copy raises after open()
\* has created the file.
UploadPdf ==
    \E filename \in FileNames, content \in FileContents,
       io \in {"ok", "open raises", "copy raises"} :
        /\ request' = [op |-> "upload", filename |-> filename, content |-> content]
        /\ IF ~IsPdfName(filename)
           THEN /\ response' = HTTPException("upload", 400, "Only PDF files are allowed")
                /\ UNCHANGED <<uploads, returned_ids>>
           ELSE \E file_id \in Uuid4(uploads) :
                   LET file_path == file_id \o DOT_PDF
                   IN  CASE io = "ok" ->
                              /\ uploads' = WriteFile(uploads, file_path, content)
                              /\ returned_ids' = returned_ids \cup {file_id}
                              /\ response' =
                                    [op |-> "upload", status |-> 200, success |-> TRUE,
                                     message |-> "File uploaded successfully",
                                     file_id |-> file_id, filename |-> filename,
                                     file_path |-> UPLOAD_DIR \o <<"/">> \o file_path]
                         [] io = "open raises" ->
                              /\ response' = HTTPException("upload", 500,
                                                           "Error uploading file")
                              /\ UNCHANGED <<uploads, returned_ids>>
                         [] io = "copy raises" ->
                              /\ uploads' = WriteFile(uploads, file_path, Truncated)
                              /\ response' = HTTPException("upload", 500,
                                                           "Error uploading file")
                              /\ UNCHANGED returned_ids
        /\ try_out' = Pending
        /\ UNCHANGED <<handlers, varsTransform, varsAnalysis>>

\* POST /extract, lines 79-120.
ExtractPdfTables ==
    \E file_id \in RequestedFileIds, gemini \in GeminiOutcomes :
        /\ request' = [op |-> "extract", file_id |-> file_id]
        /\ IF ~PathExists(uploads, JoinUploadDir(file_id \o DOT_PDF))
           THEN /\ response' = HTTPException("extract", 404,
                                   "File not found. Please upload a PDF first.")
                /\ try_out' = Pending
           ELSE LET extraction_result == extract_tables_from_pdf(gemini)
                IN  /\ try_out' = extraction_result
                    /\ IF extraction_result.status = "raised"
                       THEN response' = HTTPException("extract", 500,
                                            "Error extracting tables: "
                                               \o ExceptionStr(extraction_result.exc))
                       ELSE response' =
                               [op |-> "extract", status |-> 200, success |-> TRUE,
                                file_id |-> file_id,
                                document_context |->
                                   extraction_result.value.document_context,
                                summary |-> get_extraction_summary(
                                               extraction_result.value.tables),
                                tables |-> extraction_result.value.tables]
        /\ UNCHANGED <<uploads, returned_ids, handlers, varsTransform, varsAnalysis>>

\* POST /analyze/contradictions, lines 125-132.
AnalyzeContradictionsEndpoint ==
    \E body \in AnalysisBodies :
       \E answers \in (IF "tables" \in DOMAIN body THEN AnswersFor(body.tables)
                       ELSE {<<>>}) :
          LET out == IF "tables" \notin DOMAIN body THEN Raise(KeyError("tables"))
                     ELSE detect_contradictions(body.tables, answers)
          IN  /\ request' = [op |-> "analyze_contradictions", body |-> body]
              /\ try_out' = out
              /\ response' =
                    IF out.status = "raised"
                    THEN HandlerFailure("analyze_contradictions", out.exc)
                    ELSE [op |-> "analyze_contradictions", status |-> 200,
                          success |-> TRUE, contradictions |-> out.value]
              /\ UNCHANGED <<uploads, returned_ids, handlers, varsTransform, varsAnalysis>>

\* POST /analyze/gaps, lines 135-141.
AnalyzeGapsEndpoint ==
    \E body \in AnalysisBodies, answer \in GapsOutcomes :
          LET out == IF "tables" \notin DOMAIN body THEN Raise(KeyError("tables"))
                     ELSE find_gaps(body.tables, answer)
          IN  /\ request' = [op |-> "analyze_gaps", body |-> body]
              /\ try_out' = out
              /\ response' =
                    IF out.status = "raised"
                    THEN HandlerFailure("analyze_gaps", out.exc)
                    ELSE [op |-> "analyze_gaps", status |-> 200,
                          success |-> TRUE, gaps |-> out.value]
              /\ UNCHANGED <<uploads, returned_ids, handlers, varsTransform, varsAnalysis>>

\* POST /clarify, lines 144-160.
GetClarificationEndpoint ==
    \E body \in ClarifyBodies, answer \in ClarifyOutcomes :
          LET out == IF "finding" \notin DOMAIN body
                     THEN Raise(KeyError("finding"))
                     ELSE IF "pdf_context" \notin DOMAIN body
                     THEN Raise(KeyError("pdf_context"))
                     ELSE get_clarification(body.finding, body.pdf_context, answer)
          IN  /\ request' = [op |-> "clarify", body |-> body]
              /\ try_out' = out
              /\ response' =
                    IF out.status = "raised"
                    THEN HandlerFailure("clarify", out.exc)
                    ELSE [op |-> "clarify", status |-> 200,
                          success |-> TRUE, clarification |-> out.value]
              /\ UNCHANGED <<uploads, returned_ids, handlers, varsTransform, varsAnalysis>>

NextHttp ==
    \/ UploadPdf
    \/ ExtractPdfTables
    \/ AnalyzeContradictionsEndpoint
    \/ AnalyzeGapsEndpoint
    \/ GetClarificationEndpoint

SpecHttp == InitHttp /\ [][NextHttp]_vars

(***************************************************************************)
(* Properties of the HTTP handlers                                         *)
(***************************************************************************)

\* The request's filename does not end in ".pdf".
NotPdfRequest(req) ==
    /\ req.op = "upload"
    /\ ~(/\ Len(req.filename) >= 4
         /\ SubSeq(req.filename, Len(req.filename) - 3, Len(req.filename))
               = <<".", "p", "d", "f">>)

\* C9: an /upload request whose filename does not end in ".pdf" is answered
\* with HTTP 400, and handling it leaves the upload directory as it was: no
\* file is created and no file_id is issued.
C9_RejectNonPdf ==
    [][NotPdfRequest(request') =>
          /\ response'.status = 400
          /\ "file_id" \notin DOMAIN response'
          /\ uploads' = uploads
          /\ returned_ids' = returned_ids]_vars

\* "a.PDF" rejected while the directory holds a stored upload.
C9_Witness ==
    /\ request.op = "upload"
    /\ request.filename = FN_A_PDF_UP
    /\ response.status = 400
    /\ uploads # {}

\* C10: /extract answers 404 if and only if the given file_id was not
\* returned by an earlier successful /upload.
C10_NotFoundIffNotReturned ==
    response.op = "extract" =>
        (response.status = 404 <=> request.file_id \notin returned_ids)

\* The handlers whose failures C11 is about.
AnalysisPathOps == {"extract", "analyze_contradictions", "analyze_gaps", "clarify"}

\* The response is the handler's failure report of the exception raised in
\* its try block: for /extract the HTTP 500 whose detail ends with str(e),
\* for the other three the returned {"success": False, "error": str(e)}.
ReportsFailure ==
    IF response.op = "extract"
    THEN /\ response.status = 500
         /\ response.detail =
               "Error extracting tables: " \o ExceptionStr(try_out.exc)
    ELSE /\ response.status = 200
         /\ response.success = FALSE
         /\ response.error = ExceptionStr(try_out.exc)

\* C11: whenever an exception is raised inside the try block of /extract,
\* /analyze/contradictions, /analyze/gaps or /clarify (a failed external
\* call, malformed JSON, a key missing from the body, an index out of range),
\* the handler answers with a failure payload that carries the message of the
\* exception; the answer is never a success payload and carries no result.
C11_FailuresReported ==
    (response.op \in AnalysisPathOps /\ try_out.status = "raised") =>
        /\ ReportsFailure
        /\ ~("success" \in DOMAIN response /\ response.success)
        /\ DOMAIN response \cap
              {"tables", "summary", "contradictions", "gaps", "clarification"} = {}

\* /analyze/contradictions with one candidate service, whose analysis
\* answer is not JSON.
C11_Witness ==
    /\ response.op = "analyze_contradictions"
    /\ "tables" \in DOMAIN request.body
    /\ try_out = Raise("JSONDecodeError")
    /\ response.success = FALSE

(***************************************************************************)
(* main.upload_pdf, run by several requests at once                        *)
(***************************************************************************)

\* Faulty variant: the file stored under the name the client sent.
StoredNameOfClient(file_id, filename) == filename

\* f"{file_id}{file_extension}", file_extension being ".pdf"  (lines 52-54)
StoredName(file_id, filename) == file_id \o DOT_PDF

\* str(uuid.uuid4()) of a request that runs beside others: random UUIDs are
\* taken to be unique, so the draw is apart from every id drawn before.
Uuid4Apart(drawn) == { UuidPool[i] : i \in 1..MaxUploads } \ drawn

\* The filenames of the requests that run side by side.
FileNamesAtOnce == {FN_A_PDF, FN_A_TXT}

SetAt(i, at) == [handlers EXCEPT ![i].at = at]

InitUploads ==
    /\ IdleHttp
    /\ IdleTransform
    /\ IdleAnalysis

\* Lines 43-54: a request arrives; its filename is tested and, if it passes,
\* file_id and file_path are made.  Nothing is written yet.
UploadBegin ==
    \E filename \in FileNamesAtOnce, content \in FileContents :
        IF ~IsPdfName(filename)
        THEN /\ request' = [op |-> "upload", filename |-> filename,
                            content |-> content]
             /\ response' = HTTPException("upload", 400, "Only PDF files are allowed")
             /\ try_out' = Pending
             /\ UNCHANGED <<handlers, uploads, returned_ids, varsTransform,
                            varsAnalysis>>
        ELSE \E file_id \in Uuid4Apart({ handlers[i].file_id :
                                            i \in 1..Len(handlers) }) :
                /\ handlers' = Append(handlers,
                                  [filename  |-> filename,
                                   content   |-> content,
                                   file_id   |-> file_id,
                                   file_path |-> StoredName(file_id, filename),
                                   at        |-> "generated"])
                /\ UNCHANGED <<uploads, returned_ids, request, response, try_out,
                               varsTransform, varsAnalysis>>

\* Line 57: file_path.open("wb") creates the file, or empties the file of
\* that name, or raises (the handler then answers 500).
UploadOpen(i) ==
    /\ handlers[i].at = "generated"
    /\ \E io \in {"ok", "raises"} :
          IF io = "ok"
          THEN /\ uploads' = WriteFile(uploads, handlers[i].file_path, Truncated)
               /\ handlers' = SetAt(i, "opened")
          ELSE /\ uploads' = uploads
               /\ handlers' = SetAt(i, "failed")
    /\ UNCHANGED <<returned_ids, request, response, try_out, varsTransform,
                   varsAnalysis>>

\* Lines 58-66: shutil.copyfileobj writes the content and the handler
\* returns the file_id, or the copy raises (the handler then answers 500).
UploadCopy(i) ==
    /\ handlers[i].at = "opened"
    /\ \E io \in {"ok", "raises"} :
          IF io = "ok"
          THEN /\ uploads' = WriteFile(uploads, handlers[i].file_path,
                                       handlers[i].content)
               /\ returned_ids' = returned_ids \cup {handlers[i].file_id}
               /\ handlers' = SetAt(i, "returned")
          ELSE /\ uploads' = uploads
               /\ returned_ids' = returned_ids
               /\ handlers' = SetAt(i, "failed")
    /\ UNCHANGED <<request, response, try_out, varsTransform, varsAnalysis>>

NextUploads ==
    \/ UploadBegin
    \/ \E i \in 1..Len(handlers) : UploadOpen(i)
    \/ \E i \in 1..Len(handlers) : UploadCopy(i)

SpecUploads == InitUploads /\ [][NextUploads]_vars

(***************************************************************************)
(* Properties of uploads run at once                                       *)
(***************************************************************************)

\* The content the directory holds under a name, as a set (empty when there
\* is no such file).
StoredUnder(files, name) == { f.content : f \in { g \in files : g.name = name } }

\* C12: however the steps of simultaneous /upload requests interleave, no
\* two of them write the same file, the file a successful upload returned
\* the file_id of holds exactly the content of that upload from then on, and
\* no step changes or removes a file that already holds a content.
C12_DistinctFiles ==
    [][/\ \A i, j \in 1..Len(handlers') :
             i # j => handlers'[i].file_path # handlers'[j].file_path
       /\ \A i \in 1..Len(handlers') :
             handlers'[i].at = "returned" =>
                /\ handlers'[i].file_id \in returned_ids'
                /\ StoredUnder(uploads', handlers'[i].file_id \o DOT_PDF)
                      = {handlers'[i].content}
       /\ \A f \in uploads : f.content # Truncated => f \in uploads']_vars

\* Two uploads of different contents under way at once: the one that came
\* second has returned while the first has its file open and not yet
\* written.
C12_Witness ==
    /\ Len(handlers) >= 2
    /\ handlers[1].at = "opened"
    /\ handlers[2].at = "returned"
    /\ handlers[1].content # handlers[2].content
    /\ handlers[1].filename = handlers[2].filename

====
